---- MODULE Spec2Model ----
(***************************************************************************)
(* Crystal Quest (components/Game.tsx, second version in                   *)
(* src/unnamed/part_000, lines 449-1063): the match-3 session held in the  *)
(* React state `gameState`, the click handler, and the chains of           *)
(* setTimeout callbacks that commit a swap and run its cascade.            *)
(*                                                                         *)
(* Cells are 0-indexed as in the source.  A cell holds a crystal type      *)
(* 1..NumTypes or NULL (JavaScript null / undefined: both falsy, neither   *)
(* is === to a crystal).  A row is a JavaScript array: besides the         *)
(* GRID_SIZE cells it has the slot GRID_SIZE, absent (NULL) unless a swap  *)
(* with an out-of-range column wrote it.                                   *)
(*                                                                         *)
(* Math.random() is a tape of draws: Rand(seed, j) is the j-th crystal of  *)
(* tape `seed` (the tape repeats); initGame and every fillGrid of a        *)
(* cascade pick their tape from Seeds.                                     *)
(* events is a history variable: the number of accepted swaps and resets   *)
(* so far.  last is a history variable: the outcome of the latest          *)
(* handleCellClick when it ignored the click, rejected the swap, cleared   *)
(* the selection, threw, or accepted the swap, and nothing has happened    *)
(* since; or "reset" when the latest step was resetGame.                   *)
(*                                                                         *)
(* The animation-only fields (animatingCells, fallingCells, matchedCells,  *)
(* swappingCells, level, showCombo) are not part of the state: no game     *)
(* logic reads them.  A timer callback that writes only such fields and    *)
(* sets the next timer is taken together with the callback that follows    *)
(* it: it reads and writes nothing another callback or handler sees.       *)
(*                                                                         *)
(* Timers are never cleared.  Each pending timer carries the time left     *)
(* until it is due, so callbacks of overlapping turns interleave only in   *)
(* the orders their delays allow; clicks and resets come at any time.      *)
(*                                                                         *)
(* The leaderboard route (app/api/leaderboard/route.ts) is the second      *)
(* part: stored is the sorted set "leaderboard:v1" of the key-value store, *)
(* requests the POST handlers that have read the current score and not     *)
(* yet written, rows and status the bodies of the latest GET and POST      *)
(* responses.  submitted and posts are history variables: the valid        *)
(* (nickname, score) pairs received so far and the number of POSTs.        *)
(*                                                                         *)
(* The send-score effect of the component is the third part:               *)
(* scoreSentForRun is its state, sending the number of its POSTs that are  *)
(* not answered yet, effectDeps the dependencies of its latest run.  sent  *)
(* is a history variable: the POSTs sent since gameOver was last false.    *)
(* The effect writes nothing the game reads; Spec and LongGameSpec leave   *)
(* it out, SubmitSpec runs it.                                             *)
(***************************************************************************)
EXTENDS Integers, Sequences, FiniteSets, Bags, TLC

VARIABLES grid, score, moves, selectedCell, combo, gameOver, nickname,
          timers, events, last,
          stored, requests, rows, status, submitted, posts,
          scoreSentForRun, sending, sent, effectDeps

vars == <<grid, score, moves, selectedCell, combo, gameOver, nickname,
          timers, events, last,
          stored, requests, rows, status, submitted, posts,
          scoreSentForRun, sending, sent, effectDeps>>

\* the send-score effect's part of the state
effectVars == <<scoreSentForRun, sending, sent, effectDeps>>

\* the component's part of the state
clientVars == <<grid, score, moves, selectedCell, combo, gameOver, nickname,
                timers, events, last, effectVars>>

\* the route's part of the state
serverVars == <<stored, requests, rows, status, submitted, posts>>

gameVars == <<grid, score, moves, selectedCell, combo, gameOver>>

(* ------------------------------ bounds -------------------------------- *)

\* GRID_SIZE is 8 in the source; the board is scaled down.
GRID_SIZE == 4
\* CRYSTAL_TYPES.length is 6 in the source.
NumTypes == 4
\* INITIAL_MOVES is 15 in the source.
INITIAL_MOVES == 1
\* accepted swaps and resets explored in one run
MaxEvents == 2
\* cascade iterations explored per accepted swap
MaxCascade == 2
\* iterations of initGame's repair loop explored
MaxRepair == 6
\* the move budget of the longer game LongGameSpec explores
LongGameMoves == 2
\* POST requests explored in one run of the leaderboard
MaxPosts == 3
\* POSTs of the send-score effect explored per ended game
MaxSent == 2
\* members of the sorted set the leaderboard may start with
PreloadedCount == 21

POINTS_PER_MATCH == 10
ComboBonusPerLevel == 5

\* the setTimeout delays, in milliseconds
\* swapCells: the swap animation, then the pause before processMatches
SwapDelay == 400
ProcessDelay == 50
\* processMatches: disappearing, pause before the fill, falling, pause
\* before the new check
RemoveDelay == 500
FillDelay == 100
FallDelay == 400
RecheckDelay == 100

(* ------------------------------ values -------------------------------- *)

NULL == 0
Idx == 0 .. (GRID_SIZE - 1)
Slot == 0 .. GRID_SIZE
CRYSTAL_TYPES == 1 .. NumTypes
\* the random tapes explored
Tapes == << <<1, 2, 1, 1, 3, 1, 3, 2, 4, 1, 4, 1, 4, 3, 4, 3>>,
            <<1, 4, 2, 2, 2, 2, 2, 1, 3, 3, 2, 3, 2, 2, 3, 4>> >>
Seeds == DOMAIN Tapes
Pos == Idx \X Idx
\* positions select() is called with: the cells of the board, one position
\* right of the last column and one below the last row
OutOfBounds == {<<0, GRID_SIZE>>, <<GRID_SIZE, 0>>}
ClickPos == Pos \cup OutOfBounds
NoCell == <<-1, -1>>
NoNick == ""
Nicknames == {"ab"}

Abs(x) == IF x < 0 THEN -x ELSE x

\* f itself.  TLC evaluates a function constructor anew at every application;
\* comparing the function makes TLC tabulate it once.
Tabulated(f) == IF f = f THEN f ELSE f

\* getRandomCrystal: the j-th draw of tape `seed`
Rand(seed, j) == Tapes[seed][(j % Len(Tapes[seed])) + 1]

(* --------------------------- pure functions --------------------------- *)

\* createInitialGrid: GRID_SIZE x GRID_SIZE draws, row by row
createInitialGrid(seed) ==
    Tabulated([row \in Idx |-> [col \in Slot |->
        IF col < GRID_SIZE THEN Rand(seed, row * GRID_SIZE + col) ELSE NULL]])

\* the `while` loops of checkMatches that extend a run of 3
RECURSIVE ExtendH(_, _, _, _)
ExtendH(g, row, col, length) ==
    IF col + length < GRID_SIZE /\ g[row][col + length] = g[row][col]
    THEN ExtendH(g, row, col, length + 1)
    ELSE length

RECURSIVE ExtendV(_, _, _, _)
ExtendV(g, row, col, length) ==
    IF row + length < GRID_SIZE /\ g[row + length][col] = g[row][col]
    THEN ExtendV(g, row, col, length + 1)
    ELSE length

\* the start columns / rows the two scans of checkMatches visit
ScanStarts == 0 .. (GRID_SIZE - 3)

HorizontalMatches(g) ==
    { [row |-> row, col |-> col, type |-> "horizontal",
       length |-> ExtendH(g, row, col, 3)] :
      <<row, col>> \in { p \in Idx \X ScanStarts :
          /\ g[p[1]][p[2]] # NULL
          /\ g[p[1]][p[2]] = g[p[1]][p[2] + 1]
          /\ g[p[1]][p[2]] = g[p[1]][p[2] + 2] } }

VerticalMatches(g) ==
    { [row |-> row, col |-> col, type |-> "vertical",
       length |-> ExtendV(g, row, col, 3)] :
      <<row, col>> \in { p \in ScanStarts \X Idx :
          /\ g[p[1]][p[2]] # NULL
          /\ g[p[1]][p[2]] = g[p[1] + 1][p[2]]
          /\ g[p[1]][p[2]] = g[p[1] + 2][p[2]] } }

\* checkMatches: the records pushed by the two scans.  No two records share
\* (row, col, type), so the array is held as the set of its elements.
checkMatches(g) == HorizontalMatches(g) \cup VerticalMatches(g)

\* the cells one match record covers
MatchCells(m) ==
    IF m.type = "horizontal"
    THEN { <<m.row, m.col + i>> : i \in 0 .. (m.length - 1) }
    ELSE { <<m.row + i, m.col>> : i \in 0 .. (m.length - 1) }

\* cellsToRemove of removeMatches / processMatches
CellsToRemove(matches) == UNION { MatchCells(m) : m \in matches }

removeMatches(g, matches) ==
    LET cellsToRemove == CellsToRemove(matches)
    IN  Tabulated([row \in Idx |-> [col \in Slot |->
            IF <<row, col>> \in cellsToRemove THEN NULL ELSE g[row][col]]])

\* matches.reduce((sum, match) => sum + match.length, 0)
RECURSIVE SumLengths(_)
SumLengths(matches) ==
    IF matches = {} THEN 0
    ELSE LET m == CHOOSE x \in matches : TRUE
         IN  m.length + SumLengths(matches \ {m})

\* fillGrid, first loop, one column: rows are visited bottom-up, emptyRow is
\* the lowest free row; colv is the column, fall its entries of `falling`
\* (0: no entry)
RECURSIVE DropColumn(_, _, _, _)
DropColumn(colv, fall, row, emptyRow) ==
    IF row < 0 THEN [cells |-> colv, falling |-> fall]
    ELSE IF colv[row] # NULL
         THEN IF row # emptyRow
              THEN DropColumn([colv EXCEPT ![emptyRow] = colv[row], ![row] = NULL],
                              [fall EXCEPT ![emptyRow] = emptyRow - row],
                              row - 1, emptyRow - 1)
              ELSE DropColumn(colv, fall, row - 1, emptyRow - 1)
         ELSE DropColumn(colv, fall, row - 1, emptyRow)

DropAll(g) ==
    Tabulated([col \in Idx |-> DropColumn([row \in Idx |-> g[row][col]],
                                          [row \in Idx |-> 0],
                                          GRID_SIZE - 1, GRID_SIZE - 1)])

\* a first loop that moves nothing
DroppedNothing(g) == g

\* the board between the two loops of fillGrid
Dropped(g) ==
    LET d == DropAll(g)
    IN  Tabulated([row \in Idx |-> [col \in Slot |->
            IF col < GRID_SIZE THEN d[col].cells[row] ELSE g[row][col]]])

\* number of empty cells the second loop of fillGrid fills before (row, col)
EmptyBefore(g, row, col) ==
    Cardinality({ p \in Pos : /\ g[p[1]][p[2]] = NULL
                              /\ \/ p[1] < row
                                 \/ p[1] = row /\ p[2] < col })

EmptyCount(g) == Cardinality({ p \in Pos : g[p[1]][p[2]] = NULL })

\* a fall distance that is the destination row
FreshFallFromRowZero(row) == row

\* falling.set(`${row},${col}`, row + 1)
FreshFall(row) == row + 1

\* fillGrid, drawing from tape `seed` at position `at`
fillGrid(g, seed, at) ==
    LET d == DropAll(g)
        dg == Dropped(g)
    IN  [newGrid |->
            Tabulated([row \in Idx |-> [col \in Slot |->
                IF col < GRID_SIZE /\ dg[row][col] = NULL
                THEN Rand(seed, at + EmptyBefore(dg, row, col))
                ELSE dg[row][col]]]),
         falling |->
            Tabulated([p \in Pos |-> IF dg[p[1]][p[2]] = NULL THEN FreshFall(p[1])
                                     ELSE d[p[2]].falling[p[1]]]),
         drawn |-> EmptyCount(dg)]

\* initGame's loop "Remove initial matches": the board after it, or the
\* board with `left` = 0 when MaxRepair iterations did not settle it
RECURSIVE Repair(_, _, _, _)
Repair(g, seed, at, left) ==
    IF checkMatches(g) = {} THEN [grid |-> g, settled |-> TRUE]
    ELSE IF left = 0 THEN [grid |-> g, settled |-> FALSE]
    ELSE LET r == fillGrid(removeMatches(g, checkMatches(g)), seed, at)
         IN  Repair(r.newGrid, seed, at + r.drawn, left - 1)

InitGrid(seed) == Repair(createInitialGrid(seed), seed, GRID_SIZE * GRID_SIZE, MaxRepair)

\* an adjacency that takes the diagonal neighbours too
isAdjacentOrDiagonal(r1, c1, row, col) ==
    /\ Abs(row - r1) <= 1
    /\ Abs(col - c1) <= 1
    /\ <<row, col>> # <<r1, c1>>

\* isAdjacent of handleCellClick
isAdjacent(r1, c1, row, col) ==
    \/ Abs(row - r1) = 1 /\ col = c1
    \/ Abs(col - c1) = 1 /\ row = r1

\* testGrid of swapCells (both rows exist)
SwapGrid(g, r1, c1, r2, c2) ==
    LET a == [g EXCEPT ![r1][c1] = g[r2][c2]]
    IN  [a EXCEPT ![r2][c2] = g[r1][c1]]

\* swapCells reads testGrid[r][c] of a row that does not exist: TypeError
SwapThrows(r1, r2) == r1 \notin Idx \/ r2 \notin Idx

(* ------------------------------ timers -------------------------------- *)

\* A pending chain of setTimeout callbacks with what its closures hold: the
\* board and the match records they work on, and gameState.combo of the
\* render whose handleCellClick started the swap (processMatches reads
\* gameState.combo, not prev.combo).  iter counts the fills the chain has
\* done.  pc is the next callback that writes the game state:
\*   "swap"    the 400 ms callback of swapCells
\*   "fill"    processMatches' callbacks up to the one that calls fillGrid
\*   "recheck" processMatches' callbacks up to the one that calls checkMatches
\* rem is the time left until the callback runs, as of the latest instant a
\* timer was set or ran.  Timers run in the order of their due times; two
\* due at the same instant run in either order.
Timer(pc, g, matches, c, iter, rem) ==
    [pc |-> pc, grid |-> g, matches |-> matches, combo |-> c, iter |-> iter,
     rem |-> rem]

Pending == BagToSet(timers)
Due(t) == \A u \in Pending : t.rem <= u.rem

\* the pending timers, e milliseconds later
Elapse(bag, e) ==
    IF bag = EmptyBag THEN EmptyBag
    ELSE [u \in {[t EXCEPT !.rem = @ - e] : t \in BagToSet(bag)} |->
             bag[[u EXCEPT !.rem = @ + e]]]

\* how long after that instant a click may come: before the next timer is
\* due.  Every delay is a multiple of 50 ms, so are the instants tried.
ClickTimes ==
    IF timers = EmptyBag THEN {0}
    ELSE {e \in 0 .. SwapDelay + ProcessDelay + RemoveDelay + FillDelay :
             /\ e % 50 = 0
             /\ \A u \in Pending : e < u.rem}

Schedule(t, e) == Elapse(timers, e) (+) SetToBag({t})
Replace(t, u) == Elapse(timers (-) SetToBag({t}), t.rem) (+) SetToBag({u})
Cancel(t) == Elapse(timers (-) SetToBag({t}), t.rem)

(* ----------------------- the leaderboard route ------------------------ *)

\* A nickname is a string: the sequence of its characters, a character
\* being Space or a letter 1, 2, ...
Space == 0
\* raw.trim().slice(0, 20)
NickMaxLength == 20
\* nickname.length < 2
NickMinLength == 2
\* score > 1_000_000
MaxValidScore == 1000000
\* kv.zrange(KEY, 0, 19, ...)
TopFirst == 0
TopLast == 19
\* kv.zscore of a nickname that is not a member: null
NoScore == -1

Min(a, b) == IF a < b THEN a ELSE b

\* A JavaScript number as the request carries it: NaN, or a finite number
\* given in tenths.
Num(t) == [finite |-> TRUE, tenths |-> t]
NaN == [finite |-> FALSE, tenths |-> 0]

\* Math.floor
Floor(x) == IF x.finite THEN Num((x.tenths \div 10) * 10) ELSE x

RECURSIVE trimStart(_)
trimStart(str) ==
    IF str # <<>> /\ Head(str) = Space THEN trimStart(Tail(str)) ELSE str

RECURSIVE trimEnd(_)
trimEnd(str) ==
    IF str # <<>> /\ str[Len(str)] = Space
    THEN trimEnd(SubSeq(str, 1, Len(str) - 1))
    ELSE str

trim(str) == trimEnd(trimStart(str))

\* String.prototype.slice(from, to), 0 <= from <= to
slice(str, from, to) == SubSeq(str, from + 1, Min(to, Len(str)))

normalizeNick(raw) == slice(trim(raw), 0, NickMaxLength)

\* the nicknames requests carry: "", "a", " a ", "ab", " ab ", a string of
\* NickMaxLength + 2 letters, and one of that length with spaces at the
\* places NickMaxLength and NickMaxLength + 1
RawNicks ==
    {<<>>, <<1>>, <<Space, 1, Space>>, <<1, 2>>, <<Space, 1, 2, Space>>,
     [i \in 1 .. NickMaxLength + 2 |-> 3],
     [i \in 1 .. NickMaxLength + 2 |->
         IF i \in {NickMaxLength, NickMaxLength + 1} THEN Space ELSE 4]}

\* the scores requests carry: none, -0.5, 5, 7.5, 1000000.5 and 1000001
RawScores ==
    {NaN, Num(-5), Num(50), Num(75), Num(MaxValidScore * 10 + 5),
     Num((MaxValidScore + 1) * 10)}

\* req.json().catch(() => null): no body, or an object whose nickname and
\* score are read
Bodies ==
    {[json |-> FALSE, nickname |-> <<>>, score |-> NaN]}
    \cup [json : {TRUE}, nickname : RawNicks, score : RawScores]

\* the error of a POST body, "" when it is valid
PostError(body) ==
    LET nick == normalizeNick(body.nickname)
        sc == Floor(body.score)
    IN  IF ~body.json THEN "Bad JSON"
        ELSE IF Len(nick) < NickMinLength THEN "Nickname too short"
        ELSE IF ~sc.finite \/ sc.tenths < 0 \/ sc.tenths > MaxValidScore * 10
             THEN "Invalid score"
        ELSE ""

\* a sorted set with no member
EmptySet == [n \in {} |-> 0]

\* a sorted set of PreloadedCount members, several of them with equal scores
Preloaded ==
    [n \in {<<k, k>> : k \in 1 .. PreloadedCount} |-> (n[1] % 4) * 3]

\* kv.zscore
zscore(z, member) == IF member \in DOMAIN z THEN z[member] ELSE NoScore

\* kv.zadd
zadd(z, member, sc) ==
    [n \in DOMAIN z \cup {member} |-> IF n = member THEN sc ELSE z[n]]

\* the order of strings
RECURSIVE LexLess(_, _)
LexLess(a, b) ==
    IF a = <<>> THEN b # <<>>
    ELSE IF b = <<>> THEN FALSE
    ELSE IF Head(a) # Head(b) THEN Head(a) < Head(b)
    ELSE LexLess(Tail(a), Tail(b))

\* the order of a sorted set, reversed: by score, then by member
Outranks(z, a, b) == z[a] > z[b] \/ (z[a] = z[b] /\ LexLess(b, a))

RECURSIVE Descending(_, _)
Descending(z, members) ==
    IF members = {} THEN <<>>
    ELSE LET top == CHOOSE a \in members :
                        \A b \in members \ {a} : Outranks(z, a, b)
         IN  <<top>> \o Descending(z, members \ {top})

\* a range that ignores its bounds
zrangeWhole(z, start, stop) == Descending(z, DOMAIN z)

\* kv.zrange(KEY, start, stop, { rev: true }): the members of the ranks
\* start .. stop
zrange(z, start, stop) ==
    LET ranked == Descending(z, DOMAIN z)
    IN  SubSeq(ranked, start + 1, Min(stop + 1, Len(ranked)))

\* withScores: the three layouts parseZrangeWithScores provides for
Shapes == {"objects", "pairs", "flat"}

Reply(shape, z, ranked) ==
    [shape |-> shape,
     items |->
        CASE shape = "objects" ->
                 [i \in 1 .. Len(ranked) |->
                     [member |-> ranked[i], score |-> z[ranked[i]]]]
          [] shape = "pairs" ->
                 [i \in 1 .. Len(ranked) |-> <<ranked[i], z[ranked[i]]>>]
          [] shape = "flat" ->
                 [i \in 1 .. 2 * Len(ranked) |->
                     IF i % 2 = 1 THEN ranked[(i + 1) \div 2]
                     ELSE z[ranked[i \div 2]]]]

parseZrangeWithScores(result) ==
    LET items == result.items
    IN  IF items = <<>> THEN <<>>
        ELSE CASE result.shape = "objects" ->
                      [i \in 1 .. Len(items) |->
                          [nickname |-> items[i].member,
                           score |-> items[i].score]]
               [] result.shape = "pairs" ->
                      [i \in 1 .. Len(items) |->
                          [nickname |-> items[i][1], score |-> items[i][2]]]
               [] result.shape = "flat" ->
                      [i \in 1 .. (Len(items) + 1) \div 2 |->
                          [nickname |-> items[2 * i - 1],
                           score |-> IF 2 * i <= Len(items)
                                     THEN items[2 * i] ELSE NoScore]]

\* the valid (nickname, score) pairs a sorted set stands for
Entries(z) == {<<n, z[n]>> : n \in DOMAIN z}

\* no request in flight, none answered, an empty sorted set
ServerIdle ==
    /\ stored = EmptySet
    /\ requests = EmptyBag
    /\ rows = <<>>
    /\ status = "none"
    /\ submitted = {}
    /\ posts = 0

(* ------------------------ the send-score effect ----------------------- *)

\* [gameState.gameOver, gameState.score, nickname, scoreSentForRun]
Deps == <<gameOver, score, nickname, scoreSentForRun>>

\* the effect has run for the first render, in which the game is not over
\* and the nickname of localStorage is not read yet, and has sent nothing
EffectRan ==
    /\ scoreSentForRun = FALSE
    /\ sending = 0
    /\ sent = 0
    /\ effectDeps = <<FALSE, 0, NoNick, FALSE>>

(* ------------------------------- Init --------------------------------- *)

\* setGameState({...}) of initGame
initGame(seed) ==
    /\ InitGrid(seed).settled
    /\ grid' = InitGrid(seed).grid
    /\ score' = 0
    /\ moves' = INITIAL_MOVES
    /\ selectedCell' = NoCell
    /\ combo' = 0
    /\ gameOver' = FALSE

\* the state after the mount effects: initGame has run, the nickname is the
\* one saved in localStorage, if any
Init ==
    /\ \E seed \in Seeds :
          /\ InitGrid(seed).settled
          /\ grid = InitGrid(seed).grid
    /\ score = 0
    /\ moves = INITIAL_MOVES
    /\ selectedCell = NoCell
    /\ combo = 0
    /\ gameOver = FALSE
    /\ nickname \in {NoNick} \cup Nicknames
    /\ timers = EmptyBag
    /\ events = 0
    /\ last = "none"
    /\ EffectRan
    /\ ServerIdle

(* --------------------------- handleCellClick -------------------------- *)

\* a guard that forgets the move budget
ClickBlockedGameOverOnly == nickname = NoNick \/ gameOver

\* the two early returns
ClickBlocked == nickname = NoNick \/ moves <= 0 \/ gameOver

ClickIgnored(row, col) ==
    /\ ClickBlocked
    /\ last' = "ignored"
    /\ UNCHANGED <<gameVars, nickname, timers, events>>
    /\ UNCHANGED serverVars
    /\ UNCHANGED effectVars

\* no cell selected: select this one
ClickSelect(row, col) ==
    /\ ~ClickBlocked
    /\ selectedCell = NoCell
    /\ selectedCell' = <<row, col>>
    /\ last' = "none"
    /\ UNCHANGED <<grid, score, moves, combo, gameOver, nickname, timers, events>>
    /\ UNCHANGED serverVars
    /\ UNCHANGED effectVars

\* a second click that moves the selection to the clicked cell
ClickNotAdjacentReselects(row, col) ==
    /\ ~ClickBlocked
    /\ selectedCell # NoCell
    /\ ~isAdjacent(selectedCell[1], selectedCell[2], row, col)
    /\ selectedCell' = <<row, col>>
    /\ last' = "notAdjacent"
    /\ UNCHANGED <<grid, score, moves, combo, gameOver, nickname, timers, events>>
    /\ UNCHANGED serverVars
    /\ UNCHANGED effectVars

\* a cell is selected and the clicked one is not adjacent to it
ClickNotAdjacent(row, col) ==
    /\ ~ClickBlocked
    /\ selectedCell # NoCell
    /\ ~isAdjacent(selectedCell[1], selectedCell[2], row, col)
    /\ selectedCell' = NoCell
    /\ last' = "notAdjacent"
    /\ UNCHANGED <<grid, score, moves, combo, gameOver, nickname, timers, events>>
    /\ UNCHANGED serverVars
    /\ UNCHANGED effectVars

\* a handler that leaves the selection as it is
SelectionKept == selectedCell

\* setGameState((prev) => ({ ...prev, selectedCell: null })) after swapCells
SelectionAfterSwap == NoCell

\* swapCells throws before any setGameState; handleCellClick ends there
ClickSwapThrows(row, col) ==
    /\ ~ClickBlocked
    /\ selectedCell # NoCell
    /\ isAdjacent(selectedCell[1], selectedCell[2], row, col)
    /\ SwapThrows(selectedCell[1], row)
    /\ last' = "throws"
    /\ UNCHANGED <<gameVars, nickname, timers, events>>
    /\ UNCHANGED serverVars
    /\ UNCHANGED effectVars

\* swapCells, matches.length > 0: the 400 ms timer is set
ClickSwapAccepted(row, col) ==
    /\ ~ClickBlocked
    /\ selectedCell # NoCell
    /\ isAdjacent(selectedCell[1], selectedCell[2], row, col)
    /\ ~SwapThrows(selectedCell[1], row)
    /\ events < MaxEvents
    /\ LET testGrid == SwapGrid(grid, selectedCell[1], selectedCell[2], row, col)
           matches == checkMatches(testGrid)
       IN  /\ matches # {}
           /\ \E e \in ClickTimes :
                 timers' = Schedule(Timer("swap", testGrid, matches, combo, 0,
                                          SwapDelay), e)
    /\ selectedCell' = SelectionAfterSwap
    /\ events' = events + 1
    /\ last' = "accepted"
    /\ UNCHANGED <<grid, score, moves, combo, gameOver, nickname>>
    /\ UNCHANGED serverVars
    /\ UNCHANGED effectVars

\* a rejected swap that leaves the swapped board in place
ClickSwapRejectedKeepsSwap(row, col) ==
    /\ ~ClickBlocked
    /\ selectedCell # NoCell
    /\ isAdjacent(selectedCell[1], selectedCell[2], row, col)
    /\ ~SwapThrows(selectedCell[1], row)
    /\ checkMatches(SwapGrid(grid, selectedCell[1], selectedCell[2], row, col)) = {}
    /\ grid' = SwapGrid(grid, selectedCell[1], selectedCell[2], row, col)
    /\ selectedCell' = NoCell
    /\ last' = "rejected"
    /\ UNCHANGED <<score, moves, combo, gameOver, nickname, timers, events>>
    /\ UNCHANGED serverVars
    /\ UNCHANGED effectVars

\* swapCells, no match: the cells shake (animatingCells) and nothing else
ClickSwapRejected(row, col) ==
    /\ ~ClickBlocked
    /\ selectedCell # NoCell
    /\ isAdjacent(selectedCell[1], selectedCell[2], row, col)
    /\ ~SwapThrows(selectedCell[1], row)
    /\ checkMatches(SwapGrid(grid, selectedCell[1], selectedCell[2], row, col)) = {}
    /\ selectedCell' = SelectionAfterSwap
    /\ last' = "rejected"
    /\ UNCHANGED <<grid, score, moves, combo, gameOver, nickname, timers, events>>
    /\ UNCHANGED serverVars
    /\ UNCHANGED effectVars

handleCellClick(row, col) ==
    \/ ClickIgnored(row, col)
    \/ ClickSelect(row, col)
    \/ ClickNotAdjacent(row, col)
    \/ ClickSwapThrows(row, col)
    \/ ClickSwapAccepted(row, col)
    \/ ClickSwapRejected(row, col)

(* --------------------------- timer callbacks -------------------------- *)

\* a commit that forgets to consume the move
MovesKept(m) == m

\* moves: prev.moves - 1
MovesAfterSwap(m) == m - 1

\* swapCells, 400 ms: the swapped board is committed; 50 ms later
\* processMatches(testGrid, matches) starts
SwapCommit(t) ==
    /\ t.pc = "swap"
    /\ Due(t)
    /\ grid' = t.grid
    /\ moves' = MovesAfterSwap(moves)
    /\ combo' = 0
    /\ timers' = Replace(t, [t EXCEPT !.pc = "fill",
                                      !.rem = ProcessDelay + RemoveDelay + FillDelay])
    /\ last' = "none"
    /\ UNCHANGED <<score, selectedCell, gameOver, nickname, events>>
    /\ UNCHANGED serverVars
    /\ UNCHANGED effectVars

\* points and bonus of one cascade iteration
Points(matches) == SumLengths(matches) * POINTS_PER_MATCH
NewCombo(t) == t.combo + 1
ComboBonus(newCombo) == IF newCombo > 1 THEN newCombo * ComboBonusPerLevel ELSE 0

\* a score update that forgets the score so far
ScoreOverwritten(prevScore, gain) == gain

\* score: prev.score + points + comboBonus
ScoreAfter(prevScore, gain) == prevScore + gain

\* processMatches, 500 ms + 100 ms: removeMatches, fillGrid, score and combo
FillStep(t, seed) ==
    /\ t.pc = "fill"
    /\ Due(t)
    /\ LET filled == fillGrid(removeMatches(t.grid, t.matches), seed, 0).newGrid
       IN  /\ grid' = filled
           /\ timers' = Replace(t, [t EXCEPT !.pc = "recheck", !.grid = filled,
                                             !.iter = t.iter + 1,
                                             !.rem = FallDelay + RecheckDelay])
    /\ score' = ScoreAfter(score, Points(t.matches) + ComboBonus(NewCombo(t)))
    /\ combo' = NewCombo(t)
    /\ last' = "none"
    /\ UNCHANGED <<moves, selectedCell, gameOver, nickname, events>>
    /\ UNCHANGED serverVars
    /\ UNCHANGED effectVars

\* processMatches, 400 ms + 100 ms, newMatches.length > 0: processMatches again
RecheckCascade(t) ==
    /\ t.pc = "recheck"
    /\ Due(t)
    /\ checkMatches(t.grid) # {}
    /\ t.iter < MaxCascade
    /\ timers' = Replace(t, [t EXCEPT !.pc = "fill",
                                      !.matches = checkMatches(t.grid),
                                      !.rem = RemoveDelay + FillDelay])
    /\ last' = "none"
    /\ UNCHANGED <<gameVars, nickname, events>>
    /\ UNCHANGED serverVars
    /\ UNCHANGED effectVars

\* a test that ends the game one move late
IsGameOverBelowZero(m) == m < 0

\* a settle that ends the game whatever moves is left
IsGameOverAlways(m) == TRUE

\* const isGameOver = prev.moves <= 0
IsGameOver(m) == m <= 0

\* processMatches, 400 ms + 100 ms, no new match: the turn is over
RecheckSettle(t) ==
    /\ t.pc = "recheck"
    /\ Due(t)
    /\ checkMatches(t.grid) = {}
    /\ combo' = 0
    /\ gameOver' = IsGameOver(moves)
    /\ timers' = Cancel(t)
    /\ last' = "none"
    /\ UNCHANGED <<grid, score, moves, selectedCell, nickname, events>>
    /\ UNCHANGED serverVars
    /\ UNCHANGED effectVars

(* ------------------------- reset and nickname ------------------------- *)

\* the Reset / Play Again buttons; pending timers are not cleared
resetGame ==
    /\ nickname # NoNick
    /\ events < MaxEvents
    /\ \E seed \in Seeds : initGame(seed)
    /\ events' = events + 1
    /\ last' = "reset"
    /\ UNCHANGED <<nickname, timers>>
    /\ UNCHANGED serverVars
    /\ UNCHANGED effectVars

saveNickname(n) ==
    /\ nickname = NoNick
    /\ nickname' = n
    /\ last' = "none"
    /\ UNCHANGED <<gameVars, timers, events>>
    /\ UNCHANGED serverVars
    /\ UNCHANGED effectVars

changeNickname ==
    /\ nickname # NoNick
    /\ nickname' = NoNick
    /\ last' = "none"
    /\ UNCHANGED <<gameVars, timers, events>>
    /\ UNCHANGED serverVars
    /\ UNCHANGED effectVars

(* -------------------------------- Next -------------------------------- *)

Next ==
    \/ \E p \in ClickPos : handleCellClick(p[1], p[2])
    \/ \E t \in Pending : SwapCommit(t)
    \/ \E t \in Pending, seed \in Seeds : FillStep(t, seed)
    \/ \E t \in Pending : RecheckCascade(t)
    \/ \E t \in Pending : RecheckSettle(t)
    \/ resetGame
    \/ \E n \in Nicknames : saveNickname(n)
    \/ changeNickname

Spec == Init /\ [][Next]_vars

(* ---------------------------- a longer game --------------------------- *)

\* The same program started with LongGameMoves moves, so that clicks are
\* still taken while the turn of an earlier swap is in flight and has
\* committed; the player has a nickname and presses no button but the cells.
LongGameInit ==
    /\ \E seed \in Seeds :
          /\ InitGrid(seed).settled
          /\ grid = InitGrid(seed).grid
    /\ score = 0
    /\ moves = LongGameMoves
    /\ selectedCell = NoCell
    /\ combo = 0
    /\ gameOver = FALSE
    /\ nickname \in Nicknames
    /\ timers = EmptyBag
    /\ events = 0
    /\ last = "none"
    /\ EffectRan
    /\ ServerIdle

\* the positions clicked in the longer game: two cells whose swap is
\* accepted on each initial board, the positions outside the board and the
\* cells next to them
LongGameClicks ==
    {<<0, 1>>, <<1, 1>>, <<2, 2>>, <<2, 3>>, <<0, GRID_SIZE - 1>>,
     <<GRID_SIZE - 1, 0>>} \cup OutOfBounds

LongGameNext ==
    \/ \E p \in LongGameClicks : handleCellClick(p[1], p[2])
    \/ \E t \in Pending : SwapCommit(t)
    \/ \E t \in Pending, seed \in Seeds : FillStep(t, seed)
    \/ \E t \in Pending : RecheckCascade(t)
    \/ \E t \in Pending : RecheckSettle(t)

LongGameSpec == LongGameInit /\ [][LongGameNext]_vars

(* --------------------------- the leaderboard -------------------------- *)

\* POST answered 400: no JSON body, a short nickname or an invalid score
PostRejected(body) ==
    /\ posts < MaxPosts
    /\ PostError(body) # ""
    /\ status' = PostError(body)
    /\ posts' = posts + 1
    /\ UNCHANGED <<stored, requests, rows, submitted>>
    /\ UNCHANGED clientVars

\* POST up to `const current = await kv.zscore(KEY, nickname)`
PostRead(body) ==
    /\ posts < MaxPosts
    /\ PostError(body) = ""
    /\ LET nick == normalizeNick(body.nickname)
           sc == Floor(body.score).tenths \div 10
       IN  /\ requests' = requests (+) SetToBag({[nickname |-> nick,
                                                  score |-> sc,
                                                  current |-> zscore(stored, nick)]})
           /\ submitted' = submitted \cup {<<nick, sc>>}
    /\ posts' = posts + 1
    /\ UNCHANGED <<stored, rows, status>>
    /\ UNCHANGED clientVars

POST(body) == PostRejected(body) \/ PostRead(body)

\* POST from the answer of zscore on: the conditional zadd and the response
PostWrite(r) ==
    /\ stored' = IF r.current = NoScore \/ r.score > r.current
                 THEN zadd(stored, r.nickname, r.score)
                 ELSE stored
    /\ requests' = requests (-) SetToBag({r})
    /\ status' = "ok"
    /\ UNCHANGED <<rows, submitted, posts>>
    /\ UNCHANGED clientVars

GET(shape) ==
    /\ rows' = parseZrangeWithScores(
                   Reply(shape, stored, zrange(stored, TopFirst, TopLast)))
    /\ UNCHANGED <<stored, requests, status, submitted, posts>>
    /\ UNCHANGED clientVars

\* The route alone: the sorted set is empty or holds the entries of
\* earlier requests; the component is as mounted and takes no step.
LeaderboardInit ==
    /\ \E seed \in Seeds :
          /\ InitGrid(seed).settled
          /\ grid = InitGrid(seed).grid
    /\ score = 0
    /\ moves = INITIAL_MOVES
    /\ selectedCell = NoCell
    /\ combo = 0
    /\ gameOver = FALSE
    /\ nickname = NoNick
    /\ timers = EmptyBag
    /\ events = 0
    /\ last = "none"
    /\ EffectRan
    /\ stored \in {EmptySet, Preloaded}
    /\ requests = EmptyBag
    /\ rows = <<>>
    /\ status = "none"
    /\ submitted = Entries(stored)
    /\ posts = 0

LeaderboardNext ==
    \/ \E body \in Bodies : POST(body)
    \/ \E r \in BagToSet(requests) : PostWrite(r)
    \/ \E shape \in Shapes : GET(shape)

LeaderboardSpec == LeaderboardInit /\ [][LeaderboardNext]_vars

(* ----------------------- the game with its effect -------------------- *)

\* what the effect leaves alone
playVars == <<grid, score, moves, selectedCell, combo, gameOver, nickname,
              timers, events, last>>

\* useEffect "Send score once when game ends", run after a render in which
\* one of its dependencies changed; the POST it sends is awaited
SendScoreEffect ==
    /\ effectDeps # Deps
    /\ effectDeps' = Deps
    /\ IF ~gameOver
       THEN /\ scoreSentForRun' = FALSE
            /\ sent' = 0
            /\ UNCHANGED sending
       ELSE IF nickname = NoNick \/ scoreSentForRun
            THEN UNCHANGED <<scoreSentForRun, sending, sent>>
            ELSE /\ sent < MaxSent
                 /\ sending' = sending + 1
                 /\ sent' = sent + 1
                 /\ UNCHANGED scoreSentForRun
    /\ UNCHANGED playVars
    /\ UNCHANGED serverVars

\* fetch resolved: setScoreSentForRun(true)
PostAnswered ==
    /\ sending > 0
    /\ sending' = sending - 1
    /\ scoreSentForRun' = TRUE
    /\ UNCHANGED <<sent, effectDeps>>
    /\ UNCHANGED playVars
    /\ UNCHANGED serverVars

\* fetch rejected: catch { ignore }
PostFailed ==
    /\ sending > 0
    /\ sending' = sending - 1
    /\ UNCHANGED <<scoreSentForRun, sent, effectDeps>>
    /\ UNCHANGED playVars
    /\ UNCHANGED serverVars

\* React runs the effects of a render before it handles the next event or
\* callback
EffectsFlushed == effectDeps = Deps

SubmitNext ==
    \/ SendScoreEffect
    \/ EffectsFlushed /\ PostAnswered
    \/ EffectsFlushed /\ PostFailed
    \/ EffectsFlushed /\ \E p \in LongGameClicks : handleCellClick(p[1], p[2])
    \/ EffectsFlushed /\ \E t \in Pending : SwapCommit(t)
    \/ EffectsFlushed /\ \E t \in Pending, seed \in Seeds : FillStep(t, seed)
    \/ EffectsFlushed /\ \E t \in Pending : RecheckCascade(t)
    \/ EffectsFlushed /\ \E t \in Pending : RecheckSettle(t)
    \/ EffectsFlushed /\ resetGame
    \/ EffectsFlushed /\ \E n \in Nicknames : saveNickname(n)
    \/ EffectsFlushed /\ changeNickname

SubmitSpec == Init /\ [][SubmitNext]_vars

(* ------------------------------- claims ------------------------------- *)

\* some turn's cascade loop settles in this step
Settles == \E t \in Pending : RecheckSettle(t)

\* C1: right after reset (initGame) and right after a turn's cascade loop has
\* settled, checkMatches of the session's grid is empty.
C1_NoMatchAfterResetOrSettle ==
    [][(resetGame \/ Settles) => checkMatches(grid') = {}]_vars

\* the swap timers pending in a bag of timers
NumSwapTimers(bag) ==
    BagCardinality([t \in {u \in BagToSet(bag) : u.pc = "swap"} |-> bag[t]])

\* C2: an accepted swap sets exactly one swap timer and leaves moves alone;
\* that timer's callback takes exactly 1 from moves; a rejected swap takes
\* nothing and sets no timer; no step but such a callback and reset changes
\* moves.
C2_MovesConservation ==
    [][LET accepted == \E p \in ClickPos : ClickSwapAccepted(p[1], p[2])
           rejected == \E p \in ClickPos : ClickSwapRejected(p[1], p[2])
           commit == \E t \in Pending : SwapCommit(t)
       IN  /\ accepted => /\ moves' = moves
                          /\ NumSwapTimers(timers') = NumSwapTimers(timers) + 1
           /\ commit => /\ moves' = moves - 1
                        /\ NumSwapTimers(timers') = NumSwapTimers(timers) - 1
           /\ rejected => moves' = moves /\ timers' = timers
           /\ ~commit /\ ~resetGame => moves' = moves
           /\ ~accepted /\ ~commit => NumSwapTimers(timers') = NumSwapTimers(timers)
      ]_vars

\* an accepted swap has been committed and its cascade is pending
C2_Witness ==
    /\ moves = INITIAL_MOVES - 1
    /\ \E t \in Pending : t.pc = "fill"

\* C3: moves is never negative.
C3_MovesNeverNegative == moves >= 0

\* a click on an in-range cell next to the selected in-range cell, the
\* swapped board holding no match
RejectedSwapClick(p) ==
    /\ ~ClickBlocked
    /\ selectedCell \in Pos
    /\ isAdjacent(selectedCell[1], selectedCell[2], p[1], p[2])
    /\ checkMatches(SwapGrid(grid, selectedCell[1], selectedCell[2], p[1], p[2])) = {}
    /\ handleCellClick(p[1], p[2])

\* C4: a swap of adjacent cells whose swapped board has no match leaves the
\* grid as it was, cell for cell, and leaves score and moves unchanged.
C4_RejectedSwapChangesNothing ==
    [][\A p \in Pos : RejectedSwapClick(p) =>
           /\ \A r \in Idx, c \in Slot : grid'[r][c] = grid[r][c]
           /\ score' = score
           /\ moves' = moves]_vars

\* a swap has just been rejected
C4_Witness == last = "rejected" /\ selectedCell = NoCell /\ moves > 0

\* the maximal runs of 3 or more equal crystals of a board, one record each
MaximalRuns(g) ==
    { m \in [row : Idx, col : Idx, type : {"horizontal", "vertical"},
             length : 3 .. GRID_SIZE] :
        LET dr == IF m.type = "vertical" THEN 1 ELSE 0
            dc == IF m.type = "horizontal" THEN 1 ELSE 0
            at(i) == <<m.row + i * dr, m.col + i * dc>>
            in(q) == q \in Pos
            same(q) == in(q) /\ g[q[1]][q[2]] = g[m.row][m.col]
        IN  /\ g[m.row][m.col] # NULL
            /\ \A i \in 0 .. (m.length - 1) : same(at(i))
            /\ ~same(at(-1))
            /\ ~same(at(m.length)) }

\* the boards checkMatches has been applied to
Boards == {grid} \cup {t.grid : t \in Pending}

\* C5: checkMatches reports each maximal run exactly once, with its start and
\* its length, and no record for a sub-run starting inside a run.
C5_EachRunOnce == \A b \in Boards : checkMatches(b) = MaximalRuns(b)

\* C6: the base points one cascade iteration adds to the score are 10 times
\* the matched cells of its runs (a single run of 4: 40).
C6_BasePoints ==
    [][\A t \in Pending : (\E seed \in Seeds : FillStep(t, seed)) =>
           score' - score - ComboBonus(combo') =
               POINTS_PER_MATCH * SumLengths(MaximalRuns(t.grid))]_vars

\* C7: in the cascade of a single accepted move, iteration i sets combo to i
\* and adds the bonus 5 * i when i >= 2 and 0 when i = 1.
C7_ComboCountsIterations ==
    [][\A t \in Pending :
           (/\ events = 1
            /\ BagCardinality(timers) = 1
            /\ \E seed \in Seeds : FillStep(t, seed)) =>
           LET i == t.iter + 1
           IN  /\ combo' = i
               /\ score' - score - Points(t.matches) =
                      IF i >= 2 THEN ComboBonusPerLevel * i ELSE 0]_vars

\* a click on an in-range cell that is not adjacent to the selected cell
NonAdjacentClick(p) ==
    /\ ~ClickBlocked
    /\ selectedCell \in Pos
    /\ ~isAdjacent(selectedCell[1], selectedCell[2], p[1], p[2])
    /\ handleCellClick(p[1], p[2])

\* C8 as stated: a click on a cell not adjacent to the selected one makes the
\* clicked cell the selection; no swap, board, score and moves unchanged.
C8_NonAdjacentReselects ==
    [][\A p \in Pos : NonAdjacentClick(p) =>
           /\ selectedCell' = p
           /\ UNCHANGED <<grid, score, moves, timers>>]_vars

\* C8 as amended: a click on a cell not adjacent to the selected one clears
\* the selection; no swap, board, score and moves unchanged.
C8_NonAdjacentClears ==
    [][\A p \in Pos : NonAdjacentClick(p) =>
           /\ selectedCell' = NoCell
           /\ UNCHANGED <<grid, score, moves, timers>>]_vars

\* a non-adjacent second click has just been handled
C8_Witness == last = "notAdjacent" /\ selectedCell = NoCell

\* C9: a click on a position outside the board is a no-op: selection, grid,
\* score, moves and gameOver unchanged, no swap started, nothing thrown.
C9_OutOfBoundsNoOp ==
    [][\A p \in OutOfBounds : handleCellClick(p[1], p[2]) =>
           /\ UNCHANGED <<selectedCell, grid, score, moves, gameOver, timers>>
           /\ last' # "throws"]_vars

\* C10: while moves <= 0 or gameOver, a click changes neither the selection
\* nor grid, score, moves or combo, and starts no swap.
C10_BlockedClicksIgnored ==
    [][(moves <= 0 \/ gameOver) =>
           \/ UNCHANGED <<selectedCell, grid, score, moves, combo, gameOver, timers>>
           \/ ~\E p \in ClickPos : handleCellClick(p[1], p[2])]_vars

\* a click has just been ignored in a game that is over
C10_Witness == last = "ignored" /\ nickname # NoNick /\ gameOver /\ moves <= 0

\* C11: when the cascade of a move settles with no move left, gameOver
\* becomes true; without a reset moves does not grow back and gameOver stays
\* true.
C11_GameOverAfterLastMove ==
    [][/\ (moves <= 0 /\ ~gameOver') => ~Settles
       /\ moves' > moves => resetGame
       /\ (gameOver /\ ~gameOver') => resetGame]_vars

\* the last move has been made and its cascade has settled
C11_Witness == gameOver /\ moves = 0 /\ timers = EmptyBag /\ score > 0

\* a callback of a pending swap or cascade runs in this step
TimerStep ==
    \E t \in Pending :
        \/ SwapCommit(t)
        \/ \E seed \in Seeds : FillStep(t, seed)
        \/ RecheckCascade(t)
        \/ RecheckSettle(t)

\* C12: resetGame leaves score 0, the initial moves, combo 0, gameOver false,
\* no selection and a match-free grid, and a callback of a swap or cascade
\* started before the reset does not change the new session's grid, score,
\* moves, combo or gameOver (here: the callback that runs right after the
\* reset).
C12_ResetDiscardsPriorState ==
    [][/\ resetGame =>
            /\ score' = 0 /\ moves' = INITIAL_MOVES /\ combo' = 0
            /\ ~gameOver' /\ selectedCell' = NoCell
            /\ checkMatches(grid') = {}
       /\ (last = "reset" /\ TimerStep) =>
            UNCHANGED <<grid, score, moves, combo, gameOver>>]_vars

\* C13: while a swap or cascade timer is pending, no click is taken as a
\* selection and none starts another swap.
C13_TurnsSerialized ==
    [][timers # EmptyBag =>
           \/ UNCHANGED <<selectedCell, timers>>
           \/ ~\E p \in ClickPos : handleCellClick(p[1], p[2])]_vars

\* C14: within one game the score never decreases.
C14_ScoreNeverDecreases == [][score' < score => resetGame]_vars

\* two cascade iterations have added to the score
C14_Witness == score > 0 /\ \E t \in Pending : t.iter >= 2

C16_BestScoreKept ==
    [][/\ \A n \in DOMAIN stored :
              n \in DOMAIN stored' /\ stored'[n] >= stored[n]
       /\ requests' = EmptyBag =>
              \A e \in submitted' :
                  e[1] \in DOMAIN stored' /\ stored'[e[1]] >= e[2]]_vars

\* C18: gameOver is true only when moves has reached 0 and no swap or cascade
\* callback of the session is pending, and the score does not change once
\* gameOver is true.
C18_GameOverOnlyWhenIdle ==
    [][/\ gameOver' => (moves' <= 0 /\ timers' = EmptyBag)
       /\ gameOver => score' = score]_vars

\* C19: GET returns at most 20 rows, ordered by score descending, each
\* nickname at most once and with the score stored for it.
C19_TopRows ==
    [][UNCHANGED <<stored, requests, posts>> =>
          \/ /\ Len(rows') <= 20
             /\ \A i, j \in 1 .. Len(rows') :
                    i < j => /\ rows'[i].score >= rows'[j].score
                             /\ rows'[i].nickname # rows'[j].nickname
             /\ \A i \in 1 .. Len(rows') :
                    /\ rows'[i].nickname \in DOMAIN stored
                    /\ rows'[i].score = stored[rows'[i].nickname]
          \/ ~\E shape \in Shapes : GET(shape)]_vars

\* more than 20 members are stored and a posted nickname is among the rows
C19_Witness ==
    /\ Len(rows) = 20
    /\ Cardinality(DOMAIN stored) > 20
    /\ \E i \in 1 .. Len(rows) : rows[i].nickname = <<1, 2>>

\* C20: the board a swap commits is the session grid of that moment with
\* exactly the two swapped cells exchanged, and the commit sets combo to 0.
C20_CommitExchangesTwoCells ==
    [][moves' < moves =>
          \/ /\ combo' = 0
             /\ \E r1 \in Idx, c1 \in Slot, r2 \in Idx, c2 \in Slot :
                    /\ isAdjacent(r1, c1, r2, c2)
                    /\ grid' = SwapGrid(grid, r1, c1, r2, c2)
          \/ ~\E t \in Pending : SwapCommit(t)]_vars

\* the turns whose next callback removes the matches and refills the board
FillTimers == {t \in Pending : t.pc = "fill"}

\* the cells a match record covers
Covered(m) ==
    {p \in Pos : IF m.type = "horizontal"
                 THEN p[1] = m.row /\ p[2] >= m.col /\ p[2] < m.col + m.length
                 ELSE p[2] = m.col /\ p[1] >= m.row /\ p[1] < m.row + m.length}

RECURSIVE Tokens(_, _, _)
Tokens(g, col, row) ==
    IF row >= GRID_SIZE THEN <<>>
    ELSE (IF g[row][col] = NULL THEN <<>> ELSE <<g[row][col]>>)
         \o Tokens(g, col, row + 1)

\* C22: gravity compacts every column downward and keeps the order of its
\* surviving crystals: before the refill the empty cells of a column are its
\* topmost cells and no crystal has changed column.
C22_StableCompaction ==
    \A t \in FillTimers :
        LET removed == removeMatches(t.grid, t.matches)
            dropped == Dropped(removed)
        IN  \A col \in Idx :
               /\ Tokens(dropped, col, 0) = Tokens(removed, col, 0)
               /\ \A row \in Idx :
                      dropped[row][col] = NULL =>
                          \A above \in 0 .. row : dropped[above][col] = NULL

\* two different crystals of one column have fallen together
C22_Witness ==
    \E t \in FillTimers :
        LET removed == removeMatches(t.grid, t.matches)
            dropped == Dropped(removed)
        IN  \E col \in Idx :
               /\ removed[0][col] # NULL
               /\ removed[1][col] # NULL
               /\ removed[0][col] # removed[1][col]
               /\ dropped[0][col] = NULL
               /\ dropped[1][col] = removed[0][col]
               /\ dropped[2][col] = removed[1][col]

\* the rows of a column that hold a crystal
SurvivorRows(g, col) == {row \in Idx : g[row][col] # NULL}

\* C30: the falling map of fillGrid is keyed by destination cell: a
\* surviving crystal that moved is reported with new row - old row (>= 1),
\* one that did not move is not reported, and a fresh crystal is reported
\* with its row + 1.
C30_FallDistances ==
    \A t \in FillTimers :
        LET removed == removeMatches(t.grid, t.matches)
            falling == fillGrid(removed, 1, 0).falling
        IN  \A col \in Idx :
               LET survivors == SurvivorRows(removed, col)
                   fresh == GRID_SIZE - Cardinality(survivors)
               IN  /\ \A row \in 0 .. fresh - 1 :
                          falling[<<row, col>>] = row + 1
                   /\ \A old \in survivors :
                          LET new == GRID_SIZE - 1
                                     - Cardinality({r \in survivors : r > old})
                          IN  falling[<<new, col>>] = new - old

\* a column in which a crystal fell onto a removed cell, a fresh crystal
\* came in above it and the bottom crystal stayed
C30_Witness ==
    \E t \in FillTimers :
        LET removed == removeMatches(t.grid, t.matches)
            falling == fillGrid(removed, 1, 0).falling
        IN  \E col \in Idx :
               LET fresh == GRID_SIZE - Cardinality(SurvivorRows(removed, col))
               IN  /\ fresh >= 1
                   /\ fresh < GRID_SIZE - 1
                   /\ falling[<<GRID_SIZE - 1, col>>] = 0
                   /\ falling[<<fresh, col>>] >= 1
                   /\ falling[<<fresh - 1, col>>] = fresh

\* C23: after an accepted and after a rejected swap the selection is
\* cleared, and the click that follows is a first selection (or is ignored
\* for want of moves).
C23_SelectionClearedAfterSwap ==
    [][/\ last' \in {"accepted", "rejected"} => selectedCell' = NoCell
       /\ last \in {"accepted", "rejected"} =>
              last' \in {"none", "ignored", "reset"}]_vars

\* a swap has just been accepted
C23_Witness == last = "accepted" /\ selectedCell = NoCell /\ timers # EmptyBag

Manhattan(p, q) == Abs(p[1] - q[1]) + Abs(p[2] - q[2])

\* C24: a swap is attempted only between cells at Manhattan distance 1: a
\* click on the selected cell, on a diagonal neighbour or farther away swaps
\* nothing, sets no timer and takes no move.
C24_SwapOnlyAtDistanceOne ==
    [][/\ last' \in {"accepted", "rejected", "throws"} =>
              /\ selectedCell # NoCell
              /\ \E p \in ClickPos : /\ Manhattan(selectedCell, p) = 1
                                     /\ handleCellClick(p[1], p[2])
       /\ \A p \in ClickPos :
              (selectedCell # NoCell /\ Manhattan(selectedCell, p) # 1) =>
                  \/ /\ UNCHANGED <<grid, score, moves, timers>>
                     /\ last' \in {"notAdjacent", "ignored"}
                  \/ ~handleCellClick(p[1], p[2])]_vars

\* a click at another distance than 1 from the selected cell has been
\* handled, no swap having been accepted before
C24_Witness ==
    /\ last = "notAdjacent"
    /\ moves = INITIAL_MOVES
    /\ timers = EmptyBag
    /\ events = 0

\* C25: combo is 0 whenever no swap or cascade is in flight, and no turn
\* starts from the combo of an earlier move.
C25_ComboNotCarriedOver ==
    /\ timers = EmptyBag => combo = 0
    /\ \A t \in Pending : t.combo = 0

\* C27: gameOver implies moves <= 0 in every state, and only a reset clears
\* gameOver.
C27_GameOverImpliesNoMoves ==
    [][/\ gameOver' => moves' <= 0
       /\ (gameOver /\ ~gameOver') => resetGame]_vars

\* the game is over with moves below 0
C27_Witness == gameOver /\ moves < 0

InvalidBody(body) ==
    \/ ~body.json
    \/ Len(trim(body.nickname)) < 2
    \/ ~body.score.finite
    \/ Floor(body.score).tenths < 0
    \/ Floor(body.score).tenths > 1000000 * 10

\* C29: a POST with an invalid body is answered 400 and leaves the sorted
\* set as it is, and every stored member is a trimmed nickname of 2 to 20
\* characters with an integer score from 0 to 1,000,000.
C29_PostValidation ==
    [][/\ \A body \in Bodies :
              (InvalidBody(body) /\ POST(body)) =>
                  /\ status' \in {"Bad JSON", "Nickname too short",
                                  "Invalid score"}
                  /\ UNCHANGED <<stored, requests>>
       /\ \A n \in DOMAIN stored' :
              /\ trim(n) = n
              /\ Len(n) >= 2
              /\ Len(n) <= 20
              /\ stored'[n] \in 0 .. 1000000]_vars

\* C26: between gameOver becoming true and the next reset the effect sends
\* at most one POST.
C26_ScoreSentOnce == sent <= 1

====
